---- MODULE Spec2Model ----
(***************************************************************************)
(* Wildlife trade risk inspector: the Flask query service (src/app.py) and *)
(* the offline explanation helper (src/inference.py).                      *)
(*                                                                         *)
(* Text that is only compared or concatenated (sentences, country names)   *)
(* is a TLA+ string.  A species name is a sequence of one-character        *)
(* strings, because the code lower-cases it, strips it and hands it to a   *)
(* regular-expression engine.  Species names are written with two letters  *)
(* (genus initial, species initial): <<"P","b">> is "Python bivittatus".   *)
(* An optional Python value (None or a value) is a sequence of length 0    *)
(* or 1.  A mean is the exact quotient [num |-> sum, den |-> count].       *)
(***************************************************************************)
EXTENDS Integers, Sequences, FiniteSets, TLC

VARIABLES
    pc,             \* position of the service process in app.py
    db,             \* contents of the MongoDB store (read-only collaborator)
    SPECIES_FACTS,  \* app.py module-level dict
    GLOBAL_MEANS,   \* app.py module-level dict, bound during startup
    means_assigned, \* how many times GLOBAL_MEANS has been assigned
    request,        \* the request being handled, or NoRequest
    response,       \* the handler's return value, or NoResponse
    frame,          \* the handler's local variables at its return
    feature_df,     \* inference.py module-level DataFrame (Feature_Matrix.csv)
    call            \* a direct call of an explain_risk function and its result

vars == <<pc, db, SPECIES_FACTS, GLOBAL_MEANS, means_assigned,
          request, response, frame, feature_df, call>>

(***************************************************************************)
(* Bounds                                                                  *)
(***************************************************************************)
MaxLen == 3        \* longest taxon string a request carries
MaxSignal == 1     \* largest mean-relative signal value of a drawn profile
MaxAppendix == 2   \* largest appendix_risk of a drawn profile
MaxMean == 1       \* largest mean of a drawn statistics mapping

(***************************************************************************)
(* Strings                                                                 *)
(***************************************************************************)
Chars == {"P", "p", "B", "b", "C", " ", ".", "("}

RECURSIVE StringsUpTo(_)
StringsUpTo(n) ==
    IF n = 0 THEN {<<>>}
    ELSE LET shorter == StringsUpTo(n - 1)
         IN  shorter \cup {Append(s, c) : s \in {x \in shorter : Len(x) = n - 1},
                                          c \in Chars}

\* str.lower() on one character
LowerChar(c) ==
    CASE c = "P" -> "p"
      [] c = "B" -> "b"
      [] c = "C" -> "c"
      [] OTHER -> c

\* str.lower()
str_lower(s) == [i \in 1..Len(s) |-> LowerChar(s[i])]

IsSpace(c) == c = " "

RECURSIVE str_lstrip(_)
str_lstrip(s) ==
    IF s # <<>> /\ IsSpace(Head(s)) THEN str_lstrip(Tail(s)) ELSE s

RECURSIVE str_rstrip(_)
str_rstrip(s) ==
    IF s # <<>> /\ IsSpace(s[Len(s)]) THEN str_rstrip(SubSeq(s, 1, Len(s) - 1))
    ELSE s

\* str.strip()
str_strip(s) == str_rstrip(str_lstrip(s))

\* ", ".join(reasons)
RECURSIVE str_join(_, _)
str_join(sep, parts) ==
    IF parts = <<>> THEN ""
    ELSE IF Len(parts) = 1 THEN parts[1]
    ELSE parts[1] \o sep \o str_join(sep, Tail(parts))

\* dict.get(key, default)
dict_get(d, key, default) == IF key \in DOMAIN d THEN d[key] ELSE default

(***************************************************************************)
(* The store's regular expressions ($regex with $options "i").  The        *)
(* pattern language is the part the request alphabet can spell: "^" and    *)
(* "$" anchors, "." for any character, literals, and "(" which opens a     *)
(* group and so, never being closed, makes the pattern fail to compile.    *)
(***************************************************************************)
\* f"^{taxon}$"
AnchoredPattern(taxon) == <<"^">> \o taxon \o <<"$">>

RegexCompiles(pattern) == \A i \in 1..Len(pattern) : pattern[i] # "("

AtomMatches(atom, c) == atom = "." \/ LowerChar(atom) = LowerChar(c)

RECURSIVE MatchHere(_, _)
MatchHere(pattern, text) ==
    IF pattern = <<>> THEN TRUE
    ELSE IF pattern = <<"$">> THEN text = <<>>
    ELSE /\ text # <<>>
         /\ AtomMatches(Head(pattern), Head(text))
         /\ MatchHere(Tail(pattern), Tail(text))

RegexMatches(pattern, text) ==
    IF pattern # <<>> /\ Head(pattern) = "^"
    THEN MatchHere(Tail(pattern), text)
    ELSE \E i \in 1..(Len(text) + 1) : MatchHere(pattern, SubSeq(text, i, Len(text)))

\* collection.find({"Taxon": {"$regex": pattern, "$options": "i"}})
FindByTaxonRegex(collection, pattern) ==
    SelectSeq(collection, LAMBDA doc : RegexMatches(pattern, doc.Taxon))

(***************************************************************************)
(* Reference data and store contents                                       *)
(***************************************************************************)
Pb == <<"P", "b">>   \* "Python bivittatus"
Cp == <<"C", "p">>   \* "Crocodylus porosus"
Cb == <<"C", "b">>   \* a species the store knows and SPECIES_FACTS does not

\* app.py SPECIES_FACTS, two of its six entries
SpeciesFactTable ==
    (Pb :> [common_name |-> "Burmese Python",
            primary_threats |-> <<"Skin trade", "Pet trade">>,
            poaching_reason |-> "is exploited for the luxury leather market and the exotic pet trade. Large wild specimens are specifically targeted as their skins provide more surface area for leather production without the cost of captive rearing."])
    @@
    (Cp :> [common_name |-> "Saltwater Crocodile",
            primary_threats |-> <<"Illegal hunting", "Habitat degradation">>,
            poaching_reason |-> "possesses the most valuable crocodilian skin in the world due to its small, uniform scale pattern. Poachers target wild populations in Southeast Asia to satisfy the extreme demand from high-end European fashion houses."])

MeanSignals == <<"export_qty_log", "num_trade_events", "source_risk", "live_trade_ratio">>
NumericColumns == {"export_qty_log", "num_trade_events", "source_risk",
                   "live_trade_ratio", "appendix_risk"}

Feature(taxon, exporter, eql, nte, sr, ltr, ar) ==
    [Taxon |-> taxon, Exporter |-> exporter, export_qty_log |-> eql,
     num_trade_events |-> nte, source_risk |-> sr, live_trade_ratio |-> ltr,
     appendix_risk |-> ar]

\* db.predictions: one document per species
PredictionDocs ==
    << [Taxon |-> Cp, likely_poaching_country |-> "Indonesia"],
       [Taxon |-> Pb, likely_poaching_country |-> "Viet Nam"],
       [Taxon |-> Cb, likely_poaching_country |-> "Guyana"] >>

\* db.features: one document per (species, exporter); signals in scaled units.
\* The last document has no live_trade_ratio field.
FeatureDocs ==
    << Feature(Cp, "Malaysia", 1, 2, 1, 0, 2),
       Feature(Cp, "Indonesia", 5, 10, 9, 8, 2),
       Feature(Cp, "Indonesia", 0, 0, 0, 0, 0),
       Feature(Pb, "Viet Nam", 2, 4, 0, 0, 1),
       [Taxon |-> Cb, Exporter |-> "Suriname", export_qty_log |-> 2,
        num_trade_events |-> 4, source_risk |-> 5, appendix_risk |-> 1] >>

\* the store contents a run may start from
Datasets ==
    { [predictions |-> PredictionDocs, features |-> FeatureDocs],
      [predictions |-> PredictionDocs, features |-> <<>>] }

EmptyDict == <<>>
PyZero == [num |-> 0, den |-> 1]   \* the default 0 of means.get(key, 0)

(***************************************************************************)
(* Global feature statistics: DataFrame(...).mean(numeric_only=True)       *)
(***************************************************************************)
RECURSIVE SumColumn(_, _)
SumColumn(rows, col) ==
    IF rows = <<>> THEN 0
    ELSE (IF col \in DOMAIN Head(rows) THEN Head(rows)[col] ELSE 0)
         + SumColumn(Tail(rows), col)

CountColumn(rows, col) ==
    Cardinality({i \in 1..Len(rows) : col \in DOMAIN rows[i]})

\* mean of every numeric column; a row without the field is skipped (NaN)
ColumnMeans(rows) ==
    [col \in {c \in NumericColumns : CountColumn(rows, c) > 0} |->
        [num |-> SumColumn(rows, col), den |-> CountColumn(rows, col)]]

\* value > mean, the mean being num/den (den > 0)
GreaterThanMean(value, mean) == value * mean.den > mean.num

(***************************************************************************)
(* app.py explain_risk: the five rules, each appending its reason          *)
(***************************************************************************)
ModerateSentence == "Risk is moderate due to average trade behavior."

ReasonIf(cond, reason) == IF cond THEN <<reason>> ELSE <<>>

ExceedsMean(profile_data, means, key) ==
    GreaterThanMean(dict_get(profile_data, key, 0), dict_get(means, key, PyZero))

\* explain_risk with the second and third rule in the other order
explain_risk_reordered(taxon, country, profile_data, means) ==
    LET reasons ==
            ReasonIf(ExceedsMean(profile_data, means, "export_qty_log"),
                     "higher-than-average export volume")
         \o ReasonIf(ExceedsMean(profile_data, means, "source_risk"),
                     "predominantly wild-sourced specimens")
         \o ReasonIf(ExceedsMean(profile_data, means, "num_trade_events"),
                     "frequent export transactions")
         \o ReasonIf(ExceedsMean(profile_data, means, "live_trade_ratio"),
                     "significant live animal trade")
         \o ReasonIf(dict_get(profile_data, "appendix_risk", 0) >= 2,
                     "higher CITES protection status")
    IN  IF reasons = <<>> THEN ModerateSentence
        ELSE "Risk is elevated due to " \o str_join(", ", reasons) \o "."

ReachesMean(profile_data, means, key) ==
    dict_get(profile_data, key, 0) * dict_get(means, key, PyZero).den
        >= dict_get(means, key, PyZero).num

\* explain_risk with >= in place of > in the mean-relative rules
explain_risk_ties_count(taxon, country, profile_data, means) ==
    LET reasons ==
            ReasonIf(ReachesMean(profile_data, means, "export_qty_log"),
                     "higher-than-average export volume")
         \o ReasonIf(ReachesMean(profile_data, means, "num_trade_events"),
                     "frequent export transactions")
         \o ReasonIf(ReachesMean(profile_data, means, "source_risk"),
                     "predominantly wild-sourced specimens")
         \o ReasonIf(ReachesMean(profile_data, means, "live_trade_ratio"),
                     "significant live animal trade")
         \o ReasonIf(dict_get(profile_data, "appendix_risk", 0) >= 2,
                     "higher CITES protection status")
    IN  IF reasons = <<>> THEN ModerateSentence
        ELSE "Risk is elevated due to " \o str_join(", ", reasons) \o "."

explain_risk(taxon, country, profile_data, means) ==
    LET reasons ==
            ReasonIf(ExceedsMean(profile_data, means, "export_qty_log"),
                     "higher-than-average export volume")
         \o ReasonIf(ExceedsMean(profile_data, means, "num_trade_events"),
                     "frequent export transactions")
         \o ReasonIf(ExceedsMean(profile_data, means, "source_risk"),
                     "predominantly wild-sourced specimens")
         \o ReasonIf(ExceedsMean(profile_data, means, "live_trade_ratio"),
                     "significant live animal trade")
         \o ReasonIf(dict_get(profile_data, "appendix_risk", 0) >= 2,
                     "higher CITES protection status")
    IN  IF reasons = <<>> THEN ModerateSentence
        ELSE "Risk is elevated due to " \o str_join(", ", reasons) \o "."

(***************************************************************************)
(* The request handlers                                                    *)
(***************************************************************************)
NoRequest == [endpoint |-> "", args |-> EmptyDict]
NoResponse == [status |-> 0, body |-> EmptyDict]
NoFrame ==
    [taxon |-> <<>>, prediction |-> <<>>, facts |-> <<>>, why_text |-> "",
     features_list |-> <<>>, likely_country |-> "", specific_profile |-> <<>>,
     how_text |-> "", raised |-> ""]
NoCall == [fn |-> ""]

\* request.args.get(name): None when the parameter is missing
args_get(args, name) == IF name \in DOMAIN args THEN <<args[name]>> ELSE <<>>

\* "not taxon": None or the empty string
NotTaxon(taxon) == taxon = <<>> \/ taxon[1] = <<>>

\* next((v for k, v in facts.items() if k.lower() == taxon.lower().strip()), None)
\* (the keys differ after lower-casing, so at most one key matches)
LookupFacts(facts, taxon) ==
    LET hits == {k \in DOMAIN facts : str_lower(k) = str_strip(str_lower(taxon))}
    IN  IF hits = {} THEN <<>> ELSE <<facts[CHOOSE k \in hits : TRUE]>>

\* the same search keeping the last match instead of the first
LastWithExporter(features_list, country) ==
    LET hits == {i \in 1..Len(features_list) : features_list[i].Exporter = country}
    IN  IF hits = {} THEN <<>>
        ELSE <<features_list[CHOOSE i \in hits : \A j \in hits : i >= j]>>

\* next((item for item in features_list if item["Exporter"] == country), None)
FirstWithExporter(features_list, country) ==
    LET hits == {i \in 1..Len(features_list) : features_list[i].Exporter = country}
    IN  IF hits = {} THEN <<>>
        ELSE <<features_list[CHOOSE i \in hits : \A j \in hits : i <= j]>>

WhyText(facts) ==
    IF facts # <<>> /\ "poaching_reason" \in DOMAIN facts[1]
    THEN "This species " \o facts[1].poaching_reason \o " "
    ELSE "Analysis indicates risk is driven by international trade demand. "

\* the explanation skipped when the statistics mapping is empty
HowTextNeedsMeans(taxon, likely_country, specific_profile, means) ==
    IF specific_profile # <<>> /\ DOMAIN means # {}
    THEN explain_risk(taxon, likely_country, specific_profile[1], means)
    ELSE ""

\* how_text = "" / if specific_profile: how_text = explain_risk(...)
HowText(taxon, likely_country, specific_profile, means) ==
    IF specific_profile # <<>>
    THEN explain_risk(taxon, likely_country, specific_profile[1], means)
    ELSE ""

\* the value get_animal_data returns, with its locals
AnimalData(args, store, facts_table, means) ==
    LET taxon == args_get(args, "taxon")
    IN  IF NotTaxon(taxon)
        THEN [response |-> [status |-> 400, body |-> [error |-> "No taxon provided"]],
              frame |-> [NoFrame EXCEPT !.taxon = taxon]]
        ELSE
        LET pattern == AnchoredPattern(taxon[1])
        IN  IF ~RegexCompiles(pattern)
            THEN [response |-> [status |-> 500,
                                body |-> [error |-> "Internal Server Error"]],
                  frame |-> [NoFrame EXCEPT !.taxon = taxon,
                                            !.raised = "OperationFailure"]]
            ELSE
            LET found == FindByTaxonRegex(store.predictions, pattern)
                prediction == IF found = <<>> THEN <<>> ELSE <<Head(found)>>
            IN  IF prediction = <<>>
                THEN [response |-> [status |-> 404,
                                    body |-> [error |-> "Species not found"]],
                      frame |-> [NoFrame EXCEPT !.taxon = taxon]]
                ELSE
                LET facts == LookupFacts(facts_table, taxon[1])
                    why_text == WhyText(facts)
                    features_list == FindByTaxonRegex(store.features, pattern)
                    likely_country ==
                        dict_get(prediction[1], "likely_poaching_country", "None")
                    specific_profile == FirstWithExporter(features_list, likely_country)
                    how_text == HowText(taxon[1], likely_country, specific_profile, means)
                IN  [response |->
                        [status |-> 200,
                         body |-> [basic_info |-> prediction[1],
                                   heatmap_data |-> features_list,
                                   risk_explanation |-> why_text \o how_text]],
                     frame |-> [taxon |-> taxon, prediction |-> prediction,
                                facts |-> facts, why_text |-> why_text,
                                features_list |-> features_list,
                                likely_country |-> likely_country,
                                specific_profile |-> specific_profile,
                                how_text |-> how_text, raised |-> ""]]

\* the value get_species_facts returns, with its locals
SpeciesFacts(args, facts_table) ==
    LET taxon == args_get(args, "taxon")
    IN  IF NotTaxon(taxon)
        THEN [response |-> [status |-> 400, body |-> [error |-> "No taxon provided"]],
              frame |-> [NoFrame EXCEPT !.taxon = taxon]]
        ELSE
        LET facts == LookupFacts(facts_table, taxon[1])
        IN  IF facts = <<>>
            THEN [response |-> [status |-> 404,
                                body |-> [error |-> "Species facts not found"]],
                  frame |-> [NoFrame EXCEPT !.taxon = taxon]]
            ELSE [response |-> [status |-> 200, body |-> facts[1]],
                  frame |-> [NoFrame EXCEPT !.taxon = taxon, !.facts = facts]]

(***************************************************************************)
(* The service process.  The module body runs top to bottom (credentials,  *)
(* connection, global means) and only then app.run() accepts requests.     *)
(* A handler reads the store and the two module-level dicts and writes     *)
(* nothing, so it is one step, and concurrent requests are a sequence of   *)
(* such steps.  The store is taken to answer while requests are served;    *)
(* the only store error a handler meets is a pattern that does not compile.*)
(***************************************************************************)
Endpoints == {"/get_animal_data", "/get_species_facts"}

\* the query strings a client may send: no taxon parameter, or one of the
\* strings over Chars of length at most MaxLen
RequestArgs == {EmptyDict} \cup {[taxon |-> t] : t \in StringsUpTo(MaxLen)}

Init ==
    /\ pc = "setup"
    /\ db \in Datasets
    /\ SPECIES_FACTS = SpeciesFactTable
    /\ GLOBAL_MEANS = EmptyDict
    /\ means_assigned = 0
    /\ request = NoRequest
    /\ response = NoResponse
    /\ frame = NoFrame
    /\ feature_df = <<>>
    /\ call = NoCall

\* load_dotenv(); exit() when MONGO_PASS is not set
LoadCredentials ==
    /\ pc = "setup"
    /\ \E password_set \in BOOLEAN :
            pc' = IF password_set THEN "connect" ELSE "exited"
    /\ UNCHANGED <<db, SPECIES_FACTS, GLOBAL_MEANS, means_assigned,
                   request, response, frame, feature_df, call>>

\* MongoClient(...) and the ping; exit() when the connection fails
ConnectDB ==
    /\ pc = "connect"
    /\ \E connected \in BOOLEAN :
            pc' = IF connected THEN "means" ELSE "exited"
    /\ UNCHANGED <<db, SPECIES_FACTS, GLOBAL_MEANS, means_assigned,
                   request, response, frame, feature_df, call>>

\* the value the startup block binds GLOBAL_MEANS to
StartupMeans(fetched, all_features) ==
    IF fetched
    THEN IF all_features # <<>> THEN ColumnMeans(all_features) ELSE EmptyDict
    ELSE EmptyDict

\* the try/except that pre-calculates the global means
CalculateGlobalMeans ==
    /\ pc = "means"
    /\ \E fetched \in BOOLEAN :
            GLOBAL_MEANS' = StartupMeans(fetched, db.features)
    /\ means_assigned' = means_assigned + 1
    /\ pc' = "serving"
    /\ UNCHANGED <<db, SPECIES_FACTS, request, response, frame, feature_df, call>>

\* app.run(): a request arrives and is routed to its handler
ReceiveRequest ==
    /\ pc = "serving"
    /\ request = NoRequest
    /\ \E endpoint \in Endpoints, args \in RequestArgs :
            request' = [endpoint |-> endpoint, args |-> args]
    /\ UNCHANGED <<pc, db, SPECIES_FACTS, GLOBAL_MEANS, means_assigned,
                   response, frame, feature_df, call>>

\* get_animal_data refreshing the statistics on every request
get_animal_data_refreshing_means ==
    /\ pc = "serving"
    /\ request.endpoint = "/get_animal_data"
    /\ response = NoResponse
    /\ LET ret == AnimalData(request.args, db, SPECIES_FACTS, GLOBAL_MEANS)
       IN  /\ response' = ret.response
           /\ frame' = ret.frame
    /\ GLOBAL_MEANS' = ColumnMeans(db.features)
    /\ UNCHANGED <<pc, db, SPECIES_FACTS, means_assigned, request, feature_df, call>>

get_animal_data ==
    /\ pc = "serving"
    /\ request.endpoint = "/get_animal_data"
    /\ response = NoResponse
    /\ LET ret == AnimalData(request.args, db, SPECIES_FACTS, GLOBAL_MEANS)
       IN  /\ response' = ret.response
           /\ frame' = ret.frame
    /\ UNCHANGED <<pc, db, SPECIES_FACTS, GLOBAL_MEANS, means_assigned,
                   request, feature_df, call>>

get_species_facts ==
    /\ pc = "serving"
    /\ request.endpoint = "/get_species_facts"
    /\ response = NoResponse
    /\ LET ret == SpeciesFacts(request.args, SPECIES_FACTS)
       IN  /\ response' = ret.response
           /\ frame' = ret.frame
    /\ UNCHANGED <<pc, db, SPECIES_FACTS, GLOBAL_MEANS, means_assigned,
                   request, feature_df, call>>

\* the response goes out and the worker is free again
SendResponse ==
    /\ pc = "serving"
    /\ response # NoResponse
    /\ request' = NoRequest
    /\ response' = NoResponse
    /\ frame' = NoFrame
    /\ UNCHANGED <<pc, db, SPECIES_FACTS, GLOBAL_MEANS, means_assigned, feature_df, call>>

Next ==
    \/ LoadCredentials
    \/ ConnectDB
    \/ CalculateGlobalMeans
    \/ ReceiveRequest
    \/ get_animal_data
    \/ get_species_facts
    \/ SendResponse

Spec == Init /\ [][Next]_vars

(***************************************************************************)
(* inference.py explain_risk: the offline variant, over feature_df         *)
(***************************************************************************)
NoProfileSentence == "No detailed trade profile available."

inference_explain_risk(frame_rows, taxon, country) ==
    LET profile_rows ==
            SelectSeq(frame_rows,
                      LAMBDA row : row.Taxon = taxon /\ row.Exporter = country)
    IN  IF profile_rows = <<>> THEN NoProfileSentence
        ELSE
        LET profile == profile_rows[1]
            means == ColumnMeans(frame_rows)
            reasons ==
               ReasonIf(GreaterThanMean(profile["export_qty_log"],
                                        means["export_qty_log"]),
                        "higher-than-average export volume")
            \o ReasonIf(GreaterThanMean(profile["num_trade_events"],
                                        means["num_trade_events"]),
                        "frequent export transactions")
            \o ReasonIf(GreaterThanMean(profile["source_risk"],
                                        means["source_risk"]),
                        "predominantly wild-sourced specimens")
            \o ReasonIf(GreaterThanMean(profile["live_trade_ratio"],
                                        means["live_trade_ratio"]),
                        "significant live animal trade")
            \o ReasonIf(profile["appendix_risk"] >= 2,
                        "higher CITES protection status")
        IN  IF reasons = <<>> THEN ModerateSentence
            ELSE "Risk is elevated due to " \o str_join(", ", reasons) \o "."

(***************************************************************************)
(* Direct calls of the two explain_risk functions on drawn inputs          *)
(***************************************************************************)
\* None, or a number up to max
OptionalUpTo(max) == {<<>>} \cup {<<v>> : v \in 0..max}

Field(key, opt) == IF opt = <<>> THEN EmptyDict ELSE (key :> opt[1])

\* trade profiles: each signal absent or within its bound
Profiles ==
    { Field("export_qty_log", e) @@ Field("num_trade_events", n)
        @@ Field("source_risk", s) @@ Field("live_trade_ratio", l)
        @@ Field("appendix_risk", a) :
      e \in OptionalUpTo(MaxSignal), n \in OptionalUpTo(MaxSignal),
      s \in OptionalUpTo(MaxSignal), l \in OptionalUpTo(MaxSignal),
      a \in OptionalUpTo(MaxAppendix) }

OptionalMean == {<<>>} \cup {<<[num |-> v, den |-> 1]>> : v \in 0..MaxMean}

\* statistics mappings: each mean absent or within its bound
MeansMappings ==
    { Field("export_qty_log", e) @@ Field("num_trade_events", n)
        @@ Field("source_risk", s) @@ Field("live_trade_ratio", l) :
      e \in OptionalMean, n \in OptionalMean, s \in OptionalMean, l \in OptionalMean }

\* Feature_Matrix.csv: every row has every column
FeatureMatrix ==
    SelectSeq(FeatureDocs, LAMBDA doc : NumericColumns \subseteq DOMAIN doc)

OfflineTaxa == {Pb, Cp, Cb, <<"p", "b">>}
Countries == {"Indonesia", "Malaysia", "Viet Nam", "Guyana", "Suriname"}

\* either app.py's function is called directly, or inference.py has been
\* imported and has loaded its feature matrix
InitExplain ==
    /\ pc \in {"app", "inference"}
    /\ db = [predictions |-> PredictionDocs, features |-> FeatureDocs]
    /\ SPECIES_FACTS = SpeciesFactTable
    /\ GLOBAL_MEANS = EmptyDict
    /\ means_assigned = 0
    /\ request = NoRequest
    /\ response = NoResponse
    /\ frame = NoFrame
    /\ feature_df \in (IF pc = "inference" THEN {FeatureMatrix, <<>>} ELSE {<<>>})
    /\ call = NoCall

CallExplainRisk ==
    /\ pc = "app"
    /\ call = NoCall
    /\ \E profile_data \in Profiles, means \in MeansMappings :
            call' = [fn |-> "app.explain_risk",
                     profile_data |-> profile_data,
                     means |-> means,
                     result |-> explain_risk(Pb, "Viet Nam", profile_data, means)]
    /\ UNCHANGED <<pc, db, SPECIES_FACTS, GLOBAL_MEANS, means_assigned,
                   request, response, frame, feature_df>>

CallInferenceExplainRisk ==
    /\ pc = "inference"
    /\ call = NoCall
    /\ \E taxon \in OfflineTaxa, country \in Countries :
            call' = [fn |-> "inference.explain_risk",
                     taxon |-> taxon,
                     country |-> country,
                     result |-> inference_explain_risk(feature_df, taxon, country)]
    /\ UNCHANGED <<pc, db, SPECIES_FACTS, GLOBAL_MEANS, means_assigned,
                   request, response, frame, feature_df>>

\* the caller takes the result
Return ==
    /\ pc \in {"app", "inference"}
    /\ call # NoCall
    /\ call' = NoCall
    /\ UNCHANGED <<pc, db, SPECIES_FACTS, GLOBAL_MEANS, means_assigned,
                   request, response, frame, feature_df>>

NextExplain ==
    \/ CallExplainRisk
    \/ CallInferenceExplainRisk
    \/ Return

SpecExplain == InitExplain /\ [][NextExplain]_vars

(***************************************************************************)
(* Properties                                                              *)
(***************************************************************************)
Answered(endpoint) == request.endpoint = endpoint /\ response # NoResponse
HasTaxon == "taxon" \in DOMAIN request.args

\* the stored name equals the input after lower-casing and stripping the input
NamesAfterStrip(t, name) == str_strip(str_lower(t)) = str_lower(name)
\* the stored name equals the input under case-folding
NamesExactly(t, name) == str_lower(t) = str_lower(name)

PredictionsNamed(t) ==
    {i \in 1..Len(db.predictions) : NamesAfterStrip(t, db.predictions[i].Taxon)}

\* C1: every input that equals a stored species name after lower-casing and
\* stripping surrounding whitespace gets that species' reference fact from
\* get_species_facts and that species' prediction record as basic_info from
\* get_animal_data.
C1_NameMatchingIgnoresCaseAndWhitespace ==
    HasTaxon =>
        /\ Answered("/get_species_facts") =>
               \A s \in DOMAIN SPECIES_FACTS :
                   NamesAfterStrip(request.args.taxon, s) =>
                       /\ response.status = 200
                       /\ response.body = SPECIES_FACTS[s]
        /\ Answered("/get_animal_data") =>
               \A i \in PredictionsNamed(request.args.taxon) :
                   /\ response.status = 200
                   /\ response.body.basic_info = db.predictions[i]

\* C2: a request whose taxon is missing, empty or only whitespace is answered
\* 400 "No taxon provided" by both handlers.
C2_BlankTaxonIsBadRequest ==
    (response # NoResponse
        /\ (HasTaxon => str_strip(request.args.taxon) = <<>>)) =>
            /\ response.status = 400
            /\ response.body = [error |-> "No taxon provided"]

\* C3: a non-empty taxon that names no stored species (no prediction record,
\* respectively no reference fact, equals it under case-folding) is answered
\* 404 by both handlers, never 500.
C3_UnknownSpeciesIsNotFound ==
    (HasTaxon /\ request.args.taxon # <<>>) =>
        /\ (Answered("/get_animal_data")
               /\ \A i \in 1..Len(db.predictions) :
                      ~NamesExactly(request.args.taxon, db.predictions[i].Taxon))
              => response.status = 404
        /\ (Answered("/get_species_facts")
               /\ \A s \in DOMAIN SPECIES_FACTS :
                      ~NamesExactly(request.args.taxon, s))
              => response.status = 404

\* C4: every record get_animal_data returns, as basic_info or in heatmap_data,
\* has a Taxon equal to the input taxon under case-folding.
C4_StoreLookupIsExactMatch ==
    (Answered("/get_animal_data") /\ response.status = 200) =>
        /\ NamesExactly(request.args.taxon, response.body.basic_info.Taxon)
        /\ \A i \in 1..Len(response.body.heatmap_data) :
               NamesExactly(request.args.taxon, response.body.heatmap_data[i].Taxon)

RuleReasons ==
    << "higher-than-average export volume",
       "frequent export transactions",
       "predominantly wild-sourced specimens",
       "significant live animal trade",
       "higher CITES protection status" >>
Rules == 1..Len(RuleReasons)

\* the reasons of the rules in T, in rule order, separated by ", "
RECURSIVE ReasonsFrom(_, _, _)
ReasonsFrom(r, T, first) ==
    IF r > Len(RuleReasons) THEN ""
    ELSE IF r \in T
         THEN (IF first THEN "" ELSE ", ") \o RuleReasons[r] \o ReasonsFrom(r + 1, T, FALSE)
         ELSE ReasonsFrom(r + 1, T, first)

SentenceFor(T) ==
    IF T = {} THEN "Risk is moderate due to average trade behavior."
    ELSE "Risk is elevated due to " \o ReasonsFrom(1, T, TRUE) \o "."

SignalOf(profile, key) == IF key \in DOMAIN profile THEN profile[key] ELSE 0
MeanOf(means, key) == IF key \in DOMAIN means THEN means[key] ELSE [num |-> 0, den |-> 1]
Above(profile, means, key) ==
    SignalOf(profile, key) * MeanOf(means, key).den > MeanOf(means, key).num
Tied(profile, means, key) ==
    SignalOf(profile, key) * MeanOf(means, key).den = MeanOf(means, key).num

\* the rules whose condition holds of the profile
Triggered(profile, means) ==
    {r \in 1..Len(MeanSignals) : Above(profile, means, MeanSignals[r])}
    \cup (IF SignalOf(profile, "appendix_risk") >= 2 THEN {Len(RuleReasons)} ELSE {})

\* a finished direct call, the profile it explains and the means it compares with
IsAppCall == call.fn = "app.explain_risk"
IsInferenceCall == call.fn = "inference.explain_risk"
InferenceRows ==
    {i \in 1..Len(feature_df) :
        feature_df[i].Taxon = call.taxon /\ feature_df[i].Exporter = call.country}
ProfilePresent == IsAppCall \/ (IsInferenceCall /\ InferenceRows # {})
CallProfile ==
    IF IsAppCall THEN call.profile_data
    ELSE feature_df[CHOOSE i \in InferenceRows : \A j \in InferenceRows : i <= j]
CallMeans == IF IsAppCall THEN call.means ELSE ColumnMeans(feature_df)

\* C5: when at least one rule triggers, explain_risk returns "Risk is elevated
\* due to " + the reasons of exactly the triggered rules, in rule order 1-5,
\* joined with ", " + "."; each rule's reason appears iff its own condition holds.
C5_ReasonsOfTriggeredRulesInOrder ==
    (ProfilePresent /\ Triggered(CallProfile, CallMeans) # {}) =>
        call.result = SentenceFor(Triggered(CallProfile, CallMeans))

C5_Witness ==
    /\ IsAppCall
    /\ Triggered(call.profile_data, call.means) = {1, 3, 5}
    /\ call.result = "Risk is elevated due to higher-than-average export volume, predominantly wild-sourced specimens, higher CITES protection status."

\* C6: a profile whose four mean-relative signals are all <= their means and
\* whose appendix_risk < 2 gets exactly the moderate sentence; a signal equal
\* to its mean never contributes its reason; appendix_risk = 2 does contribute
\* "higher CITES protection status".
C6_TiesDoNotTrigger ==
    ProfilePresent =>
        /\ ((\A r \in 1..Len(MeanSignals) : ~Above(CallProfile, CallMeans, MeanSignals[r]))
              /\ SignalOf(CallProfile, "appendix_risk") < 2)
             => call.result = "Risk is moderate due to average trade behavior."
        /\ \A r \in 1..Len(MeanSignals) :
               Tied(CallProfile, CallMeans, MeanSignals[r]) =>
                   call.result \in {SentenceFor(T) : T \in {U \in SUBSET Rules : r \notin U}}
        /\ SignalOf(CallProfile, "appendix_risk") = 2 =>
               call.result \in {SentenceFor(T) :
                                   T \in {U \in SUBSET Rules : Len(RuleReasons) \in U}}

C6_Witness ==
    /\ IsAppCall
    /\ \A r \in 1..Len(MeanSignals) :
           /\ SignalOf(call.profile_data, MeanSignals[r]) > 0
           /\ Tied(call.profile_data, call.means, MeanSignals[r])
    /\ SignalOf(call.profile_data, "appendix_risk") = 1
    /\ call.result = "Risk is moderate due to average trade behavior."

\* C8: when no feature record of the species has the predicted country as its
\* exporter, the explanation is the empty string, in get_animal_data and in
\* inference.explain_risk alike.
C8_AbsentProfileGivesEmptyString ==
    /\ (IsInferenceCall /\ InferenceRows = {}) => call.result = ""
    /\ (Answered("/get_animal_data") /\ response.status = 200
            /\ frame.specific_profile = <<>>) =>
           /\ frame.how_text = ""
           /\ response.body.risk_explanation = frame.why_text

\* C7: with an empty statistics mapping explain_risk still answers: a request
\* for a species that has a profile for its predicted country is answered 200
\* with a non-empty explanation sentence, every missing mean counting as zero;
\* and the startup computation over zero feature records binds GLOBAL_MEANS
\* to the empty mapping.
C7_EmptyStatisticsStillExplain ==
    /\ (pc = "serving" /\ db.features = <<>>) => DOMAIN GLOBAL_MEANS = {}
    /\ (Answered("/get_animal_data") /\ HasTaxon /\ DOMAIN GLOBAL_MEANS = {}) =>
           \A i \in 1..Len(db.predictions), j \in 1..Len(db.features) :
               (/\ NamesExactly(request.args.taxon, db.predictions[i].Taxon)
                /\ NamesExactly(request.args.taxon, db.features[j].Taxon)
                /\ db.features[j].Exporter = db.predictions[i].likely_poaching_country)
               => /\ response.status = 200
                  /\ frame.raised = ""
                  /\ frame.specific_profile # <<>>
                  /\ frame.how_text # ""
                  /\ frame.how_text =
                         SentenceFor(Triggered(frame.specific_profile[1], EmptyDict))
                  /\ response.body.risk_explanation = frame.why_text \o frame.how_text

C7_Witness ==
    /\ Answered("/get_animal_data")
    /\ response.status = 200
    /\ DOMAIN GLOBAL_MEANS = {}
    /\ db.features # <<>>
    /\ frame.specific_profile # <<>>
    /\ frame.how_text = "Risk is elevated due to higher-than-average export volume, frequent export transactions."

\* the species sentence of a taxon
SpeciesSentence(t) ==
    LET keys == {k \in DOMAIN SPECIES_FACTS : NamesAfterStrip(t, k)}
    IN  IF keys = {}
        THEN "Analysis indicates risk is driven by international trade demand. "
        ELSE "This species " \o SPECIES_FACTS[CHOOSE k \in keys : TRUE].poaching_reason \o " "

\* explain_risk of the first feature record of the species exported by country
BehaviourSentence(t, country) ==
    LET rows == {i \in 1..Len(db.features) :
                    /\ NamesExactly(t, db.features[i].Taxon)
                    /\ db.features[i].Exporter = country}
    IN  IF rows = {} THEN ""
        ELSE explain_risk(t, country,
                          db.features[CHOOSE i \in rows : \A j \in rows : i <= j],
                          GLOBAL_MEANS)

\* C9: for a taxon that has a prediction record, risk_explanation is the species
\* sentence (from the reference fact, or the generic fallback) followed by
\* explain_risk of the first feature record of the species whose Exporter is the
\* prediction's likely_poaching_country, or by nothing when there is no such record.
C9_RiskExplanationComposition ==
    (Answered("/get_animal_data") /\ HasTaxon
        /\ \E i \in 1..Len(db.predictions) :
               NamesExactly(request.args.taxon, db.predictions[i].Taxon)) =>
        /\ response.status = 200
        /\ response.body.risk_explanation =
               SpeciesSentence(request.args.taxon)
               \o BehaviourSentence(request.args.taxon,
                                    response.body.basic_info.likely_poaching_country)

C9_Witness ==
    /\ Answered("/get_animal_data")
    /\ response.status = 200
    /\ request.args.taxon = <<"C", "P">>
    /\ Cardinality({i \in 1..Len(response.body.heatmap_data) :
                       response.body.heatmap_data[i].Exporter = "Indonesia"}) > 1
    /\ DOMAIN GLOBAL_MEANS # {}
    /\ response.body.risk_explanation =
           "This species " \o SpeciesFactTable[Cp].poaching_reason \o " "
           \o SentenceFor(Rules)

====
